---- MODULE Spec2Model ----
(***************************************************************************)
(* Log-file retention of the `logging` crate (src/src/lib.rs).             *)
(*                                                                         *)
(* LoggingBuilder::finish calls rotate_logs, which calls get_all_logs      *)
(* (scan of the log directory, deleting every entry whose stem is not a    *)
(* timestamp) and then deletes the oldest records while at least           *)
(* MAX_LOG_FILES remain; finish then creates the log file of the run.      *)
(*                                                                         *)
(* A file name is a sequence of one-character strings.  A point in time    *)
(* (chrono NaiveDateTime) is the tuple <<year, month, day, hour, minute,   *)
(* second, leap>>, compared lexicographically as the derived Ord of        *)
(* NaiveDateTime compares (date, then time); leap = 1 is chrono's          *)
(* representation of a leap second (second 59 with the fraction >= 1 s).   *)
(***************************************************************************)
EXTENDS Integers, Sequences, FiniteSets, TLC

\* ------------------------------------------------------------------------
\* Program constants

\* const MAX_LOG_FILES: u8 = 5;
MAX_LOG_FILES == 5

\* const CHRONO_FORMAT: &str = "%Y-%m-%d_%H-%M-%S";  a specifier is written
\* with its letter, a literal with its character.
CHRONO_FORMAT == <<"%Y", "-", "%m", "-", "%d", "_", "%H", "-", "%M", "-", "%S">>

\* ------------------------------------------------------------------------
\* Bounds of the model

\* Most entries of the log directory before the first pass.
MaxInitEntries == 7

\* Most initialization passes one process runs one after the other.
MaxPasses == 2

\* ------------------------------------------------------------------------
\* Timestamp codec: chrono's strftime formatting and strict parsing

DigitChars == <<"0", "1", "2", "3", "4", "5", "6", "7", "8", "9">>

DigitValue == [c \in {DigitChars[d] : d \in 1..10} |->
                  (CHOOSE d \in 1..10 : DigitChars[d] = c) - 1]

IsDigit(c) == c \in DOMAIN DigitValue

DigitVal(c) == DigitValue[c]

\* Width of a numeric specifier: what formatting pads to with zeros and the
\* most digits parsing consumes for it (an unsigned %Y takes at most 4).
\* Years are 0..9999: chrono writes and reads a sign with any other year.
FieldWidth(spec) == IF spec = "%Y" THEN 4 ELSE 2

\* Position of a specifier's value in a point in time.
FieldIndex(spec) ==
    CASE spec = "%Y" -> 1
      [] spec = "%m" -> 2
      [] spec = "%d" -> 3
      [] spec = "%H" -> 4
      [] spec = "%M" -> 5
      [] spec = "%S" -> 6

IsSpecifier(item) == item \in {"%Y", "%m", "%d", "%H", "%M", "%S"}

\* The decimal digits of n, zero-padded to at least `width` characters.
RECURSIVE ZeroPad(_, _)
ZeroPad(n, width) ==
    IF width <= 1 /\ n < 10
    THEN <<DigitChars[n + 1]>>
    ELSE Append(ZeroPad(n \div 10, width - 1), DigitChars[(n % 10) + 1])

\* The value a specifier prints: %S prints 60 for a leap second.
FieldValue(time, spec) ==
    IF spec = "%S" THEN time[6] + time[7] ELSE time[FieldIndex(spec)]

RECURSIVE FormatItems(_, _)
FormatItems(time, items) ==
    IF items = <<>>
    THEN <<>>
    ELSE LET item == Head(items)
         IN  (IF IsSpecifier(item)
              THEN ZeroPad(FieldValue(time, item), FieldWidth(item))
              ELSE <<item>>) \o FormatItems(time, Tail(items))

\* The same as Format, with the month printed where the minute belongs and
\* the minute where the month belongs (%M and %m exchanged when formatting).
FormatMonthMinuteSwapped(time) ==
    FormatItems(<<time[1], time[5], time[3], time[4], time[2], time[6], time[7]>>,
                CHRONO_FORMAT)

\* time.format(CHRONO_FORMAT)
Format(time) == FormatItems(time, CHRONO_FORMAT)

\* Number of digits of s from position i on, at most `max`.
RECURSIVE DigitRun(_, _, _)
DigitRun(s, i, max) ==
    IF max = 0 \/ i > Len(s) \/ ~IsDigit(s[i])
    THEN 0
    ELSE 1 + DigitRun(s, i + 1, max - 1)

\* The number written by the n digits of s from position i on.
RECURSIVE NumberOf(_, _, _)
NumberOf(s, i, n) ==
    IF n = 0
    THEN 0
    ELSE 10 * NumberOf(s, i, n - 1) + DigitVal(s[i + n - 1])

DecodeError == [ok |-> FALSE]

\* chrono's parse loop over s from position i on: a numeric specifier
\* consumes one up to FieldWidth digits, a literal must match exactly, and
\* input left over is an error.
RECURSIVE ParseItems(_, _, _, _)
ParseItems(s, i, items, fields) ==
    IF items = <<>>
    THEN IF i > Len(s) THEN [ok |-> TRUE, fields |-> fields] ELSE DecodeError
    ELSE LET item == Head(items)
         IN  IF IsSpecifier(item)
             THEN LET n == DigitRun(s, i, FieldWidth(item))
                  IN  IF n = 0
                      THEN DecodeError
                      ELSE ParseItems(s, i + n, Tail(items),
                                      [fields EXCEPT ![FieldIndex(item)] =
                                           NumberOf(s, i, n)])
             ELSE IF i <= Len(s) /\ s[i] = item
                  THEN ParseItems(s, i + 1, Tail(items), fields)
                  ELSE DecodeError

IsLeapYear(y) == (y % 4 = 0 /\ y % 100 # 0) \/ y % 400 = 0

DaysInMonth(y, m) ==
    IF m = 2 THEN (IF IsLeapYear(y) THEN 29 ELSE 28)
    ELSE IF m \in {4, 6, 9, 11} THEN 30 ELSE 31

\* Parsed::to_naive_datetime: the fields must name a real date and time; a
\* second of 60 is a leap second.
ValidFields(f) ==
    /\ f[2] \in 1..12
    /\ f[3] \in 1..DaysInMonth(f[1], f[2])
    /\ f[4] \in 0..23
    /\ f[5] \in 0..59
    /\ f[6] \in 0..60

\* NaiveDateTime::parse_from_str(s, CHRONO_FORMAT)
ParseFromStr(s) ==
    LET p == ParseItems(s, 1, CHRONO_FORMAT, <<0, 0, 0, 0, 0, 0>>)
    IN  IF p.ok /\ ValidFields(p.fields)
        THEN LET f == p.fields
             IN  [ok |-> TRUE,
                  time |-> IF f[6] = 60
                           THEN <<f[1], f[2], f[3], f[4], f[5], 59, 1>>
                           ELSE <<f[1], f[2], f[3], f[4], f[5], f[6], 0>>]
        ELSE DecodeError

\* Ord of NaiveDateTime: -1 (Less), 0 (Equal), 1 (Greater).
RECURSIVE CmpFrom(_, _, _)
CmpFrom(a, b, i) ==
    IF i > Len(a) THEN 0
    ELSE IF a[i] < b[i] THEN -1
    ELSE IF a[i] > b[i] THEN 1
    ELSE CmpFrom(a, b, i + 1)

Cmp(a, b) == CmpFrom(a, b, 1)

\* sort_log_files' comparator with the operands exchanged: a.cmp(b), which
\* orders oldest first.
CompareAscending(x, y) == Cmp(x[2], y[2])

\* The comparator of sort_log_files, |(_, a), (_, b)| b.cmp(a): Less (-1)
\* when x is the newer record.
Compare(x, y) == Cmp(y[2], x[2])

\* An insertion that puts x before the elements equal to it, as an unstable
\* sort may.
RECURSIVE InsertSortedUnstable(_, _)
InsertSortedUnstable(sorted, x) ==
    IF sorted = <<>> THEN <<x>>
    ELSE IF Compare(x, Head(sorted)) <= 0 THEN <<x>> \o sorted
    ELSE <<Head(sorted)>> \o InsertSortedUnstable(Tail(sorted), x)

\* Vec::sort_by is a stable sort: x goes before the first element it is
\* strictly Less than, so equal elements keep their order.
RECURSIVE InsertSorted(_, _)
InsertSorted(sorted, x) ==
    IF sorted = <<>> THEN <<x>>
    ELSE IF Compare(x, Head(sorted)) < 0 THEN <<x>> \o sorted
    ELSE <<Head(sorted)>> \o InsertSorted(Tail(sorted), x)

RECURSIVE SortFrom(_, _, _)
SortFrom(v, i, sorted) ==
    IF i > Len(v) THEN sorted ELSE SortFrom(v, i + 1, InsertSorted(sorted, v[i]))

\* fn sort_log_files(logs: &mut Vec<(String, NaiveDateTime)>)
sort_log_files(v) == SortFrom(v, 1, <<>>)

\* ------------------------------------------------------------------------
\* Paths and the filesystem

NoStem == <<"", "no stem">>

RECURSIVE LastDot(_, _)
LastDot(name, i) ==
    IF i = 0 THEN 0 ELSE IF name[i] = "." THEN i ELSE LastDot(name, i - 1)

\* Path::file_stem: the name up to its last dot; the whole name when it has
\* no dot or only a leading one; none for "..".
FileStem(name) ==
    IF name = <<".", ".">> THEN NoStem
    ELSE LET d == LastDot(name, Len(name))
         IN  IF d <= 1 THEN name ELSE SubSeq(name, 1, d - 1)

\* A directory entry: its name and whether it is a regular file or a
\* directory.  The path of an entry of the log directory is its name.
Entry(name, kind) == [name |-> name, kind |-> kind]

Names(d) == {d[i].name : i \in DOMAIN d}

HasName(d, name) == \E i \in DOMAIN d : d[i].name = name

KindOf(d, name) == d[CHOOSE i \in DOMAIN d : d[i].name = name].kind

\* std::fs::remove_file succeeds on an existing regular file; it fails on a
\* name that is gone and on a directory.
CanRemove(d, name) == HasName(d, name) /\ KindOf(d, name) = "file"

Without(d, name) == SelectSeq(d, LAMBDA e : e.name # name)

InsertAt(d, k, e) == SubSeq(d, 1, k) \o <<e>> \o SubSeq(d, k + 1, Len(d))

\* ------------------------------------------------------------------------
\* State

Procs == {"a", "b"}

VARIABLES
    dirExists,  \* the log directory exists
    dir,        \* its entries, in the order read_dir yields them
    fault,      \* the filesystem operation this environment denies, if any
    ticks,      \* the instants Local::now() shows, the current one first
    pc,         \* per process: where its initialization is
    entries,    \* per process: what its read_dir returned
    idx,        \* per process: position of the scan in entries
    log_files,  \* per process: get_all_logs' Vec<(String, NaiveDateTime)>
    logs,       \* per process: rotate_logs' Vec<String>
    err,        \* per process: the call whose error finish returned
    existed,    \* per process: what log_dir.exists() answered
    calls,      \* history, per process: calls of rotate_logs by this finish
    removes,    \* history, per process: the remove_file calls of the pass
    made,       \* history, per process: the log file the pass opened
    passes      \* history, per process: initializations started

vars == <<dirExists, dir, fault, ticks, pc, entries, idx, log_files, logs,
          err, existed, calls, removes, made, passes>>

NoFile == <<>>

Faults == {"none", "create_dir_all", "read_dir", "log_file"}

\* ------------------------------------------------------------------------
\* Error propagation (the ? operator)

\* remove_file's error dropped and the scan continued with the next entry.
ScanRemoveIgnored(ok) == "scan"

\* std::fs::remove_file(path)?; continue;  in get_all_logs
ScanRemoveOutcome(ok) == IF ok THEN "scan" ELSE "failed"

\* remove_file's error dropped and the loop continued.
RotateRemoveIgnored(ok) == "rotate"

\* remove_file(path)?;  in rotate_logs' loop
RotateRemoveOutcome(ok) == IF ok THEN "rotate" ELSE "failed"

\* The loop condition with > for >=.
EvictionDueStrict(v) == Len(v) > MAX_LOG_FILES

\* while logs.len() >= MAX_LOG_FILES.into()
EvictionDue(v) == Len(v) >= MAX_LOG_FILES

\* format!("{}.log", time.format(CHRONO_FORMAT))
LogFileName(time) == Format(time) \o <<".", "l", "o", "g">>

\* ------------------------------------------------------------------------
\* Operations of one initialization, LoggingBuilder::finish from the call of
\* rotate_logs on.  Each action is one filesystem call with the in-memory
\* work that follows it.

Fail(p, call) ==
    /\ pc' = [pc EXCEPT ![p] = "failed"]
    /\ err' = [err EXCEPT ![p] = call]

\* The directory created without asking whether it exists (create_dir, which
\* fails on a directory that is already there).
EnsureDirNoCheck(p) ==
    /\ pc[p] = "start"
    /\ calls' = [calls EXCEPT ![p] = @ + 1]
    /\ existed' = [existed EXCEPT ![p] = dirExists]
    /\ IF dirExists \/ fault = "create_dir_all"
       THEN /\ Fail(p, "create_dir_all")
            /\ UNCHANGED dirExists
       ELSE /\ dirExists' = TRUE
            /\ pc' = [pc EXCEPT ![p] = "read_dir"]
            /\ UNCHANGED err
    /\ UNCHANGED <<dir, fault, ticks, entries, idx, log_files, logs, removes,
                   made, passes>>

\* get_all_logs: if !log_dir.exists() { create_dir_all(&log_dir)?; }
EnsureDir(p) ==
    /\ pc[p] = "start"
    /\ calls' = [calls EXCEPT ![p] = @ + 1]
    /\ existed' = [existed EXCEPT ![p] = dirExists]
    /\ IF ~dirExists /\ fault = "create_dir_all"
       THEN /\ Fail(p, "create_dir_all")
            /\ UNCHANGED dirExists
       ELSE /\ dirExists' = TRUE
            /\ pc' = [pc EXCEPT ![p] = "read_dir"]
            /\ UNCHANGED err
    /\ UNCHANGED <<dir, fault, ticks, entries, idx, log_files, logs, removes,
                   made, passes>>

\* get_all_logs: let mut log_files = vec![]; let paths = read_dir(&log_dir)?;
\* The iterator yields the entries the directory holds when it is read; what
\* another process deletes or creates afterwards does not change it.
ReadDir(p) ==
    /\ pc[p] = "read_dir"
    /\ IF fault = "read_dir"
       THEN /\ Fail(p, "read_dir")
            /\ UNCHANGED <<entries, idx, log_files>>
       ELSE /\ entries' = [entries EXCEPT ![p] = dir]
            /\ idx' = [idx EXCEPT ![p] = 1]
            /\ log_files' = [log_files EXCEPT ![p] = <<>>]
            /\ pc' = [pc EXCEPT ![p] = "scan"]
            /\ UNCHANGED err
    /\ UNCHANGED <<dirExists, dir, fault, ticks, logs, removes, made, passes,
                   existed, calls>>

\* get_all_logs: one iteration of  for path in paths { ... }
ScanEntry(p) ==
    /\ pc[p] = "scan"
    /\ idx[p] <= Len(entries[p])
    /\ LET path == entries[p][idx[p]].name
           file_name == FileStem(path)
           time == ParseFromStr(file_name)
       IN  IF file_name = NoStem
           THEN UNCHANGED <<dir, log_files, removes, pc, err>>
           ELSE IF time.ok
           THEN /\ log_files' = [log_files EXCEPT ![p] = Append(@, <<path, time.time>>)]
                /\ UNCHANGED <<dir, removes, pc, err>>
           ELSE LET ok == CanRemove(dir, path)
                IN  /\ dir' = IF ok THEN Without(dir, path) ELSE dir
                    /\ removes' = [removes EXCEPT ![p] =
                           Append(@, [path |-> path, ok |-> ok, by |-> "get_all_logs"])]
                    /\ pc' = [pc EXCEPT ![p] = ScanRemoveOutcome(ok)]
                    /\ err' = [err EXCEPT ![p] =
                           IF pc'[p] = "failed" THEN "remove_file" ELSE @]
                    /\ UNCHANGED log_files
    /\ idx' = [idx EXCEPT ![p] = @ + 1]
    /\ UNCHANGED <<dirExists, fault, ticks, entries, logs, made, passes,
                   existed, calls>>

\* get_all_logs: sort_log_files(&mut log_files);
\*               Ok(log_files.iter().map(|(path, _)| path.to_string()).collect())
\* rotate_logs:  let mut logs = get_all_logs(log_dir)?;
ReturnLogs(p) ==
    /\ pc[p] = "scan"
    /\ idx[p] > Len(entries[p])
    /\ LET sorted == sort_log_files(log_files[p])
       IN  /\ log_files' = [log_files EXCEPT ![p] = sorted]
           /\ logs' = [logs EXCEPT ![p] = [i \in DOMAIN sorted |-> sorted[i][1]]]
    /\ pc' = [pc EXCEPT ![p] = "rotate"]
    /\ UNCHANGED <<dirExists, dir, fault, ticks, entries, idx, err, removes,
                   made, passes,
                   existed, calls>>

\* rotate_logs: one test of the loop condition, and one iteration if it holds:
\*   while logs.len() >= MAX_LOG_FILES.into() {
\*       let path = logs.pop().unwrap(); remove_file(path)?; }
\*   Ok(())
Rotate(p) ==
    /\ pc[p] = "rotate"
    /\ IF EvictionDue(logs[p])
       THEN LET path == logs[p][Len(logs[p])]
                ok == CanRemove(dir, path)
            IN  /\ logs' = [logs EXCEPT ![p] = SubSeq(@, 1, Len(@) - 1)]
                /\ dir' = IF ok THEN Without(dir, path) ELSE dir
                /\ removes' = [removes EXCEPT ![p] =
                       Append(@, [path |-> path, ok |-> ok, by |-> "rotate_logs"])]
                /\ pc' = [pc EXCEPT ![p] = RotateRemoveOutcome(ok)]
                /\ err' = [err EXCEPT ![p] =
                       IF pc'[p] = "failed" THEN "remove_file" ELSE @]
       ELSE /\ pc' = [pc EXCEPT ![p] = "create"]
            /\ UNCHANGED <<dir, logs, removes, err>>
    /\ UNCHANGED <<dirExists, fault, ticks, entries, idx, log_files, made, passes,
                   existed, calls>>

\* finish, after rotate_logs(&log_dir)? returned Ok:
\*   let time = Local::now();
\*   log_file_path.push(format!("{}.log", time.format(CHRONO_FORMAT)));
\*   ... .chain(fern::log_file(log_file_path)?)
\* fern::log_file opens the path for appending and creates the file when it
\* is not there; a new file appears anywhere in the enumeration order.
OpenLogFile(p, next) ==
    /\ pc[p] = "create"
    /\ LET name == LogFileName(Head(ticks))
       IN  IF fault = "log_file" \/ (HasName(dir, name) /\ KindOf(dir, name) = "dir")
           THEN /\ Fail(p, "log_file")
                /\ UNCHANGED <<dir, made>>
           ELSE /\ IF HasName(dir, name)
                   THEN UNCHANGED dir
                   ELSE \E k \in 0..Len(dir) :
                            dir' = InsertAt(dir, k, Entry(name, "file"))
                /\ made' = [made EXCEPT ![p] = name]
                /\ pc' = [pc EXCEPT ![p] = next]
                /\ UNCHANGED err
    /\ UNCHANGED <<dirExists, fault, ticks, entries, idx, log_files, logs,
                   removes, passes, existed, calls>>

\* finish with rotate_logs called once more after the log file was opened.
CreateLogFileThenRotate(p) == OpenLogFile(p, "start")

\* The file is the last thing the pass does to the directory: what follows in
\* finish (building and applying the dispatcher) touches no entry of it.
CreateLogFile(p) == OpenLogFile(p, "done")

\* The program is run again: a new call of finish, which starts with nothing
\* kept from the call before (no state outlives rotate_logs).
NextPass(p) ==
    /\ pc[p] \in {"done", "failed"}
    /\ passes[p] < MaxPasses
    /\ passes' = [passes EXCEPT ![p] = @ + 1]
    /\ pc' = [pc EXCEPT ![p] = "start"]
    /\ entries' = [entries EXCEPT ![p] = <<>>]
    /\ idx' = [idx EXCEPT ![p] = 1]
    /\ log_files' = [log_files EXCEPT ![p] = <<>>]
    /\ logs' = [logs EXCEPT ![p] = <<>>]
    /\ err' = [err EXCEPT ![p] = "none"]
    /\ removes' = [removes EXCEPT ![p] = <<>>]
    /\ made' = [made EXCEPT ![p] = NoFile]
    /\ existed' = [existed EXCEPT ![p] = FALSE]
    /\ calls' = [calls EXCEPT ![p] = 0]
    /\ UNCHANGED <<dirExists, dir, fault, ticks>>

\* The clock (Local::now()) moves on to the next second it will show.
Tick ==
    /\ Len(ticks) > 1
    /\ ticks' = Tail(ticks)
    /\ UNCHANGED <<dirExists, dir, fault, pc, entries, idx, log_files, logs,
                   err, removes, made, passes,
                   existed, calls>>

\* ------------------------------------------------------------------------
\* Directories the passes start from

T0 == <<2023, 12, 31, 23, 59, 59, 0>>
T1 == <<2024, 1, 5, 3, 4, 5, 0>>
T2 == <<2024, 1, 5, 3, 4, 6, 0>>
T3 == <<2024, 1, 5, 3, 5, 0, 0>>
T4 == <<2024, 2, 29, 0, 0, 0, 0>>
T6 == <<2024, 10, 2, 9, 30, 0, 0>>
T7 == <<2024, 11, 3, 8, 0, 0, 0>>

\* T1 written without padding, which parse_from_str accepts as well.
UnpaddedT1 == <<"2", "0", "2", "4", "-", "1", "-", "5", "_", "3", "-", "4", "-", "5",
                ".", "l", "o", "g">>

Universe ==
    << Entry(LogFileName(T1), "file"),
       Entry(<<"n", "o", "t", "e", "s", ".", "t", "x", "t">>, "file"),
       Entry(LogFileName(T2), "file"),
       Entry(LogFileName(T3), "file"),
       Entry(<<"b", "a", "k">>, "dir"),
       Entry(LogFileName(T4), "file"),
       Entry(Format(T0), "dir"),
       Entry(LogFileName(T6), "file"),
       Entry(UnpaddedT1, "file") >>

RECURSIVE Pick(_, _, _)
Pick(u, S, i) ==
    IF i > Len(u) THEN <<>>
    ELSE (IF i \in S THEN <<u[i]>> ELSE <<>>) \o Pick(u, S, i + 1)

Reverse(s) == [i \in 1..Len(s) |-> s[Len(s) + 1 - i]]

\* Every choice of at most MaxInitEntries entries of the universe, in the
\* universe's order and in the opposite one.
InitDirs ==
    LET subsets == {S \in SUBSET (1..Len(Universe)) : Cardinality(S) <= MaxInitEntries}
    IN  {Pick(Universe, S, 1) : S \in subsets}
        \cup {Reverse(Pick(Universe, S, 1)) : S \in subsets}

InitLocal ==
    /\ entries = [p \in Procs |-> <<>>]
    /\ idx = [p \in Procs |-> 1]
    /\ log_files = [p \in Procs |-> <<>>]
    /\ logs = [p \in Procs |-> <<>>]
    /\ err = [p \in Procs |-> "none"]
    /\ existed = [p \in Procs |-> FALSE]
    /\ calls = [p \in Procs |-> 0]
    /\ removes = [p \in Procs |-> <<>>]
    /\ made = [p \in Procs |-> NoFile]

\* One process; the program may be run again after it ended.
Init ==
    /\ dirExists \in BOOLEAN
    /\ dir \in (IF dirExists THEN InitDirs ELSE {<<>>})
    /\ fault \in Faults
    /\ fault = "create_dir_all" => ~dirExists
    /\ ticks = <<T6, T7>>
    /\ pc = [p \in Procs |-> IF p = "a" THEN "start" ELSE "off"]
    /\ passes = [p \in Procs |-> IF p = "a" THEN 1 ELSE 0]
    /\ InitLocal

Next ==
    \/ EnsureDir("a")
    \/ ReadDir("a")
    \/ ScanEntry("a")
    \/ ReturnLogs("a")
    \/ Rotate("a")
    \/ CreateLogFile("a")
    \/ NextPass("a")
    \/ Tick

Spec == Init /\ [][Next]_vars

\* Every choice of at most MaxInitEntries regular files of the universe, in
\* the universe's order.
ConcDirs ==
    LET files == {i \in 1..Len(Universe) : Universe[i].kind = "file"}
    IN  {Pick(Universe, S, 1) :
            S \in {S \in SUBSET files : Cardinality(S) <= MaxInitEntries}}

\* Two processes initialize at the same time on one directory, each once, on
\* a filesystem that denies nothing.
InitConc ==
    /\ dirExists \in BOOLEAN
    /\ dir \in (IF dirExists THEN ConcDirs ELSE {<<>>})
    /\ fault = "none"
    /\ ticks = <<T6, T7>>
    /\ pc = [p \in Procs |-> "start"]
    /\ passes = [p \in Procs |-> 1]
    /\ InitLocal

NextConc ==
    \/ \E p \in Procs :
        \/ EnsureDir(p)
        \/ ReadDir(p)
        \/ ScanEntry(p)
        \/ ReturnLogs(p)
        \/ Rotate(p)
        \/ CreateLogFile(p)
    \/ Tick

SpecConc == InitConc /\ [][NextConc]_vars

\* Instants the clock is sampled at for the codec: the ends of each field's
\* range, years of fewer than four digits, leap days and a leap second.
SampleInstants ==
    {t \in {0, 5, 476, 2023, 2024, 9999} \X {1, 2, 10, 12} \X {1, 9, 28, 29, 31}
           \X {0, 23} \X {0, 59} \X {0, 7, 59} \X {0, 1} :
        /\ t[3] <= DaysInMonth(t[1], t[2])
        /\ t[7] = 1 => t[6] = 59}

\* One process starting on an empty or missing directory, the clock showing
\* any sampled instant and then T7; every file of the directory is then one
\* finish named.
InitCodec ==
    /\ dirExists \in BOOLEAN
    /\ dir = <<>>
    /\ fault = "none"
    /\ ticks \in {<<t, T7>> : t \in SampleInstants}
    /\ pc = [p \in Procs |-> IF p = "a" THEN "start" ELSE "off"]
    /\ passes = [p \in Procs |-> IF p = "a" THEN 1 ELSE 0]
    /\ InitLocal

SpecCodec == InitCodec /\ [][Next]_vars

\* ------------------------------------------------------------------------
\* Vocabulary of the properties

\* A well-formed entry: its stem decodes as a timestamp token.
IsTimestamped(name) ==
    LET stem == FileStem(name) IN stem # NoStem /\ ParseFromStr(stem).ok

\* A foreign entry: it has a stem, which does not decode.
IsForeign(name) ==
    LET stem == FileStem(name) IN stem # NoStem /\ ~ParseFromStr(stem).ok

TimeOf(name) == ParseFromStr(FileStem(name)).time

Timestamped(d) == {n \in Names(d) : IsTimestamped(n)}

\* The paths the pass of p deleted from within function fn.
RemovedBy(p, fn) ==
    {removes[p][i].path : i \in {i \in DOMAIN removes[p] :
                                    removes[p][i].ok /\ removes[p][i].by = fn}}

Removed(p) == RemovedBy(p, "get_all_logs") \cup RemovedBy(p, "rotate_logs")

CallsBy(p, fn) == {i \in DOMAIN removes[p] : removes[p][i].by = fn}

AllRemovesOk(p) == \A i \in DOMAIN removes[p] : removes[p][i].ok

PositionIn(v, name) == CHOOSE i \in DOMAIN v : v[i].name = name

Max(a, b) == IF a >= b THEN a ELSE b

Min(a, b) == IF a <= b THEN a ELSE b

PassEnded(p) == pc[p] \in {"done", "failed"}

\* The directory held entries when the pass of p read it, or when the pass
\* failed before having read it.
Populated(p) == entries[p] # <<>> \/ (pc[p] = "failed" /\ dir # <<>>)

\* ------------------------------------------------------------------------
\* Properties

\* C1: when rotate_logs has returned Ok (every deletion succeeded) after a scan
\* that yielded M records, it deleted exactly max(0, M - N + 1) files, each no
\* newer than every file it kept, and min(M, N - 1) timestamped files remain,
\* fewer than N = MAX_LOG_FILES.
C1_EvictionCount ==
    pc["a"] = "create" =>
        LET M == Len(log_files["a"])
            N == MAX_LOG_FILES
            evicted == RemovedBy("a", "rotate_logs")
            kept == Timestamped(dir)
        IN  /\ Cardinality(CallsBy("a", "rotate_logs")) = Max(0, M - N + 1)
            /\ Cardinality(evicted) = Max(0, M - N + 1)
            /\ \A d \in evicted : \A r \in kept : Cmp(TimeOf(d), TimeOf(r)) <= 0
            /\ Cardinality(kept) = Min(M, N - 1)
            /\ Cardinality(kept) < N
            /\ Len(logs["a"]) = Cardinality(kept)

C1_Witness ==
    /\ pc["a"] = "create"
    /\ Len(log_files["a"]) > MAX_LOG_FILES
    /\ Cardinality(RemovedBy("a", "rotate_logs")) >= 2
    /\ Cardinality(Timestamped(dir)) = MAX_LOG_FILES - 1

\* C2: when get_all_logs has returned Ok and rotate_logs has deleted nothing
\* yet, every foreign entry the scan met is gone from the directory, every
\* well-formed one is still there and in the returned list, and the scan
\* deleted foreign entries only.
C2_ScanCleans ==
    (pc["a"] = "rotate" /\ CallsBy("a", "rotate_logs") = {}) =>
        /\ \A i \in DOMAIN entries["a"] :
              LET n == entries["a"][i].name
              IN  /\ IsForeign(n) => ~HasName(dir, n)
                  /\ IsTimestamped(n) =>
                        HasName(dir, n) /\ \E j \in DOMAIN logs["a"] : logs["a"][j] = n
        /\ \A i \in DOMAIN removes["a"] : IsForeign(removes["a"][i].path)

C2_Witness ==
    /\ pc["a"] = "rotate"
    /\ CallsBy("a", "rotate_logs") = {}
    /\ RemovedBy("a", "get_all_logs") # {}
    /\ Len(logs["a"]) >= 2
    /\ Len(entries["a"]) = Len(logs["a"]) + Cardinality(RemovedBy("a", "get_all_logs"))

\* C3: the list get_all_logs returns holds exactly the well-formed entries it
\* read; of any two of its records the earlier one is strictly newer, or they
\* have the same instant and the earlier one was enumerated first; the paths
\* handed to rotate_logs are in that order.
C3_SortedStable ==
    (pc["a"] = "rotate" /\ CallsBy("a", "rotate_logs") = {}) =>
        LET v == log_files["a"]
            e == entries["a"]
            valid == SelectSeq(e, LAMBDA x : IsTimestamped(x.name))
            place == [i \in DOMAIN v |-> PositionIn(e, v[i][1])]
        IN  /\ Len(v) = Len(valid)
            /\ \A i \in DOMAIN valid :
                  LET rec == <<valid[i].name, TimeOf(valid[i].name)>>
                  IN  \E j \in DOMAIN v : v[j] = rec
            /\ \A i \in DOMAIN v : \A j \in DOMAIN v :
                  i < j =>
                      \/ Cmp(v[i][2], v[j][2]) = 1
                      \/ /\ Cmp(v[i][2], v[j][2]) = 0
                         /\ place[i] < place[j]
            /\ logs["a"] = [i \in DOMAIN v |-> v[i][1]]

C3_Witness ==
    /\ pc["a"] = "rotate"
    /\ CallsBy("a", "rotate_logs") = {}
    /\ Len(log_files["a"]) >= 4
    /\ \E i \in DOMAIN log_files["a"] : \E j \in DOMAIN log_files["a"] :
          /\ i < j
          /\ log_files["a"][i][2] = log_files["a"][j][2]
          /\ log_files["a"][i][1] = UnpaddedT1
    /\ PositionIn(entries["a"], log_files["a"][1][1]) > 1

\* C4: a remove_file that fails in rotate_logs is the last remove_file of the
\* pass (nothing further is deleted, the delete is not repeated), the pass has
\* ended with that error, and it opened no log file.
C4_EvictionFailureFatal ==
    \A i \in DOMAIN removes["a"] :
        (removes["a"][i].by = "rotate_logs" /\ ~removes["a"][i].ok) =>
            /\ i = Len(removes["a"])
            /\ pc["a"] = "failed"
            /\ err["a"] = "remove_file"
            /\ made["a"] = NoFile
            /\ HasName(dir, removes["a"][i].path)

C4_Witness ==
    /\ Len(removes["a"]) >= 2
    /\ removes["a"][Len(removes["a"])].by = "rotate_logs"
    /\ ~removes["a"][Len(removes["a"])].ok
    /\ Cardinality(Timestamped(dir)) >= MAX_LOG_FILES
    /\ pc["a"] = "failed"

\* A failure inside get_all_logs: create_dir_all or read_dir returned an
\* error, or a remove_file of an unparseable entry failed.
ScanFailed(p) ==
    \/ err[p] \in {"create_dir_all", "read_dir"}
    \/ \E i \in CallsBy(p, "get_all_logs") : ~removes[p][i].ok

\* C5: after a failure inside get_all_logs the pass has ended in error with no
\* list returned to rotate_logs, rotate_logs has called remove_file not once,
\* and every well-formed entry the scan read is still in the directory.
C5_ScanFailureNoEviction ==
    ScanFailed("a") =>
        /\ pc["a"] = "failed"
        /\ logs["a"] = <<>>
        /\ CallsBy("a", "rotate_logs") = {}
        /\ \A n \in Removed("a") : IsForeign(n)
        /\ \A i \in DOMAIN entries["a"] :
              IsTimestamped(entries["a"][i].name) => HasName(dir, entries["a"][i].name)
        /\ made["a"] = NoFile

C5_Witness ==
    /\ pc["a"] = "failed"
    /\ \E i \in CallsBy("a", "get_all_logs") : ~removes["a"][i].ok
    /\ RemovedBy("a", "get_all_logs") # {}
    /\ Len(log_files["a"]) >= 1
    /\ Cardinality(Timestamped(dir)) >= MAX_LOG_FILES

\* C6: once a finish has opened its log file, that finish is over: rotate_logs
\* was called exactly once, before, so nothing is deleted afterwards and the
\* file is in the directory; a finish that succeeded has opened its file.
C6_RotateOnceBeforeCreate ==
    /\ made["a"] # NoFile =>
          /\ pc["a"] = "done"
          /\ calls["a"] = 1
          /\ HasName(dir, made["a"])
          /\ KindOf(dir, made["a"]) = "file"
    /\ pc["a"] \in {"create", "done"} => calls["a"] = 1
    /\ pc["a"] = "done" => made["a"] # NoFile

C6_Witness ==
    /\ pc["a"] = "done"
    /\ made["a"] = LogFileName(T7)
    /\ HasName(dir, made["a"])
    /\ RemovedBy("a", "rotate_logs") # {}
    /\ RemovedBy("a", "get_all_logs") # {}

C8_RoundTrip ==
    /\ \A i \in DOMAIN ticks :
          ParseFromStr(Format(ticks[i])) = [ok |-> TRUE, time |-> ticks[i]]
    /\ \A i \in DOMAIN dir :
          /\ IsTimestamped(dir[i].name)
          /\ LogFileName(TimeOf(dir[i].name)) = dir[i].name
    /\ made["a"] # NoFile => HasName(dir, made["a"])
    /\ removes["a"] = <<>>
    /\ pc["a"] \in {"rotate", "create", "done"} =>
          \A i \in DOMAIN entries["a"] :
              \E j \in DOMAIN log_files["a"] :
                  /\ log_files["a"][j][1] = entries["a"][i].name
                  /\ LogFileName(log_files["a"][j][2]) = entries["a"][i].name

C8_Witness ==
    /\ passes["a"] = 2
    /\ pc["a"] = "create"
    /\ Len(log_files["a"]) = 1
    /\ log_files["a"][1][2] = <<5, 2, 28, 23, 59, 59, 1>>
    /\ dir = <<Entry(log_files["a"][1][1], "file")>>

\* C9: at the end of every successful pass the directory holds at most
\* N = MAX_LOG_FILES timestamped entries, and at most N - 1 when rotate_logs
\* has returned and the log file is not opened yet.
C9_AtMostNAfterPass ==
    /\ pc["a"] = "create" => Cardinality(Timestamped(dir)) <= MAX_LOG_FILES - 1
    /\ pc["a"] = "done" => Cardinality(Timestamped(dir)) <= MAX_LOG_FILES

C9_Witness ==
    /\ pc["a"] = "done"
    /\ passes["a"] = 2
    /\ Cardinality(Timestamped(dir)) = MAX_LOG_FILES
    /\ Cardinality(RemovedBy("a", "rotate_logs")) = 1

\* C10: a remove_file that fails on a path the other process has deleted is
\* the last remove_file of its pass, which has ended with that error and has
\* opened no log file.
C10_LostRaceIsFatal ==
    \A p \in Procs : \A i \in DOMAIN removes[p] :
        (~removes[p][i].ok /\ \E q \in Procs \ {p} : removes[p][i].path \in Removed(q)) =>
            /\ i = Len(removes[p])
            /\ pc[p] = "failed"
            /\ err[p] = "remove_file"
            /\ made[p] = NoFile

C10_Witness ==
    /\ pc["a"] = "failed"
    /\ removes["a"] # <<>>
    /\ removes["a"][Len(removes["a"])].by = "rotate_logs"
    /\ ~removes["a"][Len(removes["a"])].ok
    /\ removes["a"][Len(removes["a"])].path \in RemovedBy("b", "rotate_logs")
    /\ pc["b"] = "done"

====
